---- MODULE Spec2Model ----
(***************************************************************************)
(* Trigger detection and dispatch engine of the LiveKit voice agent        *)
(* (src/agent.py): phrase matching, the text-stream handler, the           *)
(* transcript callback, the notify and outbound-call tasks, and the        *)
(* entrypoint's session lifecycle.                                         *)
(*                                                                         *)
(* Texts are sequences of one-character strings, so that lower(), strip()  *)
(* and the substring test are computed character by character.             *)
(***************************************************************************)
EXTENDS Integers, Sequences, FiniteSets, TLC

\* ------------------------------------------------------------------ bounds
\* Number of inputs (text-stream payloads plus transcript revisions) delivered.
MaxCycles == 2
\* Largest reading of int(time.time()), counted from the session's start.
MaxClock == 1
\* Number of fragments a text is built from when classify is checked alone.
MaxFrags == 3

\* --------------------------------------------------------------- constants
\* agent.py:35-45, in the dict's insertion order (the order of .items()).
TRIGGER_PHRASES ==
  << 
     [phrase |-> <<"w","e","a","p","o","n"," ","d","r","a","w","n">>,
      event |-> "weapon_drawn"],
     [phrase |-> <<"w","e","a","p","o","n"," ","o","u","t">>,
      event |-> "weapon_drawn"],
     [phrase |-> <<"g","u","n"," ","d","r","a","w","n">>,
      event |-> "weapon_drawn"],
     [phrase |-> <<"s","h","o","t","s"," ","f","i","r","e","d">>,
      event |-> "shots_fired"],
     [phrase |-> <<"m","a","n"," ","d","o","w","n">>,
      event |-> "man_down"],
     [phrase |-> <<"o","f","f","i","c","e","r"," ","d","o","w","n">>,
      event |-> "officer_down"],
     [phrase |-> <<"s","u","s","p","e","c","t"," ","d","o","w","n">>,
      event |-> "suspect_down"],
     [phrase |-> <<"c","a","m","e","r","a"," ","b","l","o","c","k","e","d">>,
      event |-> "camera_blocked"],
     [phrase |-> <<"c","a","m","e","r","a"," ","o","b","s","c","u","r","e","d">>,
      event |-> "camera_blocked"] >>

UpperCase == <<"A","B","C","D","E","F","G","H","I","J","K","L","M","N","O","P","Q","R","S","T","U","V","W","X","Y","Z">>
LowerCase == <<"a","b","c","d","e","f","g","h","i","j","k","l","m","n","o","p","q","r","s","t","u","v","w","x","y","z">>
\* The texts of the session model, and the characters of each (TLA+ strings
\* cannot be indexed, so the characters are tabulated).
TxDropShots == "drop the weapon, shots fired"
TxCamera == "camera blocked, camera obscured"
TxCameraPadded == " camera blocked, camera obscured "
TxShotsMan == "Shots Fired! Man Down"
TxBlank == "  "
TxEmpty == ""

Chars ==
  (TxDropShots :> <<"d","r","o","p"," ","t","h","e"," ","w","e","a","p","o","n",","," ","s","h","o","t","s"," ","f","i","r","e","d">>) @@
  (TxCamera :> <<"c","a","m","e","r","a"," ","b","l","o","c","k","e","d",","," ","c","a","m","e","r","a"," ","o","b","s","c","u","r","e","d">>) @@
  (TxCameraPadded :> <<" ","c","a","m","e","r","a"," ","b","l","o","c","k","e","d",","," ","c","a","m","e","r","a"," ","o","b","s","c","u","r","e","d"," ">>) @@
  (TxShotsMan :> <<"S","h","o","t","s"," ","F","i","r","e","d","!"," ","M","a","n"," ","D","o","w","n">>) @@
  (TxBlank :> <<" "," ">>) @@
  (TxEmpty :> <<>>)

\* The text whose characters are cs.
Str(cs) == CHOOSE s \in DOMAIN Chars : Chars[s] = cs

\* Pieces the inputs of classify are built from when it is checked alone.
Fragments ==
  { <<"s","h","o","t","s"," ","f","i","r","e","d">>,
    <<"S","H","O","T","S"," ","F","I","R","E","D">>,
    <<"W","e","a","p","o","n">>,
    <<" ","o","u","t">>,
    <<" ","d","r","a","w","n">>,
    <<"g","u","n">>,
    <<"M","a","n"," ","D","o","w","n">>,
    <<"o","f","f","i","c","e","r">>,
    <<" ","d","o","w","n">>,
    <<"s","u","s","p","e","c","t">>,
    <<"c","a","m","e","r","a">>,
    <<" ","b","l","o","c","k","e","d">>,
    <<" ","O","b","s","c","u","r","e","d">>,
    <<"s","h","o","t","s"," ">>,
    <<"f","i","r","e">>,
    <<","," ">> }

\* Inputs of the session model: the contents of text-stream payloads and the
\* texts of transcript revisions.
Payloads == { TxShotsMan, TxCamera, TxBlank, TxEmpty }
Transcripts == { TxDropShots, TxCameraPadded, TxBlank }

VARIABLES
  pc,                  \* position of entrypoint()
  disconnected,        \* the asyncio.Event of entrypoint()
  events_api_base_url, \* EVENTS_API_BASE_URL, read once at import
  trunk_id,            \* os.getenv("LIVEKIT_SIP_TRUNK_ID")
  cycles,              \* one record per delivered input, in arrival order
  notify_tasks,        \* per cycle, its _send_event_to_chain invocations
  call_tasks,          \* per cycle, its _dispatch_outbound_call tasks
  active_text_tasks,   \* entrypoint.active_text_tasks (ids of handler tasks)
  clock,               \* int(time.time())
  cl_text,             \* classify checked alone: the input text
  cl_events,           \* classify checked alone: the returned set
  cl_done              \* classify checked alone: has classify returned

vars == << pc, disconnected, events_api_base_url, trunk_id, cycles,
           notify_tasks, call_tasks, active_text_tasks, clock,
           cl_text, cl_events, cl_done >>

sessionVars == << pc, disconnected, events_api_base_url, trunk_id, cycles,
                  notify_tasks, call_tasks, active_text_tasks, clock >>

classifyVars == << cl_text, cl_events, cl_done >>

\* ------------------------------------------------------------ str helpers
\* str.lower() on one character (ASCII letters).
lower_char(c) ==
  IF \E i \in DOMAIN UpperCase : UpperCase[i] = c
  THEN LowerCase[CHOOSE i \in DOMAIN UpperCase : UpperCase[i] = c]
  ELSE c

\* str.lower()
str_lower(text) == [i \in 1..Len(text) |-> lower_char(text[i])]

\* `needle in hay` for str operands.
str_contains(hay, needle) ==
  \E i \in 1..(Len(hay) - Len(needle) + 1) :
    SubSeq(hay, i, i + Len(needle) - 1) = needle

Whitespace == { " ", "\t", "\n", "\r" }

RECURSIVE str_lstrip(_)
str_lstrip(text) ==
  IF text # <<>> /\ Head(text) \in Whitespace
  THEN str_lstrip(Tail(text))
  ELSE text

RECURSIVE str_rstrip(_)
str_rstrip(text) ==
  IF text # <<>> /\ text[Len(text)] \in Whitespace
  THEN str_rstrip(SubSeq(text, 1, Len(text) - 1))
  ELSE text

\* str.strip()
str_strip(text) == str_rstrip(str_lstrip(text))

\* ---------------------------------------------------------- PhraseMatcher
\* Variant: the text is matched as it comes, without lower().
lowered_of_unchanged(text) == text

\* agent.py:49  lowered = text.lower()
lowered_of(text) == str_lower(text)

\* agent.py:48-50
_extract_trigger_events(text) ==
  LET lowered == lowered_of(text)
  IN  { TRIGGER_PHRASES[i].event :
          i \in { j \in DOMAIN TRIGGER_PHRASES :
                    str_contains(lowered, TRIGGER_PHRASES[j].phrase) } }

\* Iteration order of `for event in matched_events`: set order is arbitrary in
\* Python; the tasks it creates run concurrently, so one fixed order is used.
RECURSIVE events_in_order(_, _)
events_in_order(matched, i) ==
  IF i > Len(TRIGGER_PHRASES) THEN <<>>
  ELSE LET e == TRIGGER_PHRASES[i].event
           first == \A j \in 1..(i - 1) : TRIGGER_PHRASES[j].event # e
       IN  (IF e \in matched /\ first THEN <<e>> ELSE <<>>)
             \o events_in_order(matched, i + 1)

\* ------------------------------------------------------------ task records
\* Variant: the base URL is not checked before the POST.
base_url_missing_unchecked(url) == FALSE

\* agent.py:274  `if not EVENTS_API_BASE_URL`
base_url_missing(url) == url = ""

\* Variant: the trunk id is not checked before the request.
trunk_missing_unchecked(trunk) == FALSE

\* agent.py:110-111  `if not trunk_id`
trunk_missing(trunk) == trunk = ""

\* A started _send_event_to_chain (agent.py:269-287): with no base URL it
\* returns at once without a POST; otherwise the POST is handed to a thread.
new_notify(e, text, inl) ==
  [ event      |-> e,
    transcript |-> text,
    inline     |-> inl,
    st         |-> IF base_url_missing(events_api_base_url)
                   THEN "skipped" ELSE "posting",
    posts      |-> IF base_url_missing(events_api_base_url) THEN 0 ELSE 1 ]

\* A started _dispatch_outbound_call (agent.py:110-128): without a trunk id
\* it raises before any request; otherwise the identity is taken from the
\* clock and create_sip_participant is requested.
new_call(text) ==
  [ transcript |-> text,
    st         |-> IF trunk_missing(trunk_id)
                   THEN "config_error" ELSE "requesting",
    identity   |-> IF trunk_missing(trunk_id) THEN -1 ELSE clock,
    requests   |-> IF trunk_missing(trunk_id) THEN 0 ELSE 1 ]

\* Results of _post_event_sync (agent.py:53-63): a status below 300, a
\* returned status of 300 or more, or an exception (HTTPError, URLError,
\* the 10 s timeout).
HttpResults == { "status_2xx", "status_ge_300", "exception" }

\* Variant: an exception of the POST leaves _send_event_to_chain.
send_event_outcome_propagates(http) ==
  CASE http = "status_2xx"    -> "published"
    [] http = "status_ge_300" -> "failed_status"
    [] http = "exception"     -> "raised"

\* agent.py:286-293: every result is logged; no Exception leaves the function.
send_event_outcome(http) ==
  CASE http = "status_2xx"    -> "published"
    [] http = "status_ge_300" -> "failed_status"
    [] http = "exception"     -> "failed_error"

NotifyFinal == { "skipped", "published", "failed_status", "failed_error", "raised" }
CallFinal == { "config_error", "dispatched", "sip_error" }
HandlerFinal == { "done", "read_failed", "raised" }

\* Variant: one task per matching phrase rather than per matched event.
text_stream_notify_events_per_phrase(text) ==
  LET hit(r) == /\ str_contains(lowered_of(Chars[text]), r.phrase)
                /\ r.event # "shots_fired"
      hits == SelectSeq(TRIGGER_PHRASES, hit)
  IN  [ i \in 1..Len(hits) |-> hits[i].event ]

\* agent.py:190-199: one task per matched event other than shots_fired.
text_stream_notify_events(text) ==
  SelectSeq(events_in_order(_extract_trigger_events(Chars[text]), 1),
            LAMBDA e : e # "shots_fired")

\* Variant: a kind already notified for an earlier input is not notified
\* again.
transcript_notify_events_deduped(text) ==
  SelectSeq(events_in_order(_extract_trigger_events(Chars[text]), 1),
            LAMBDA e : \A c \in DOMAIN notify_tasks :
                         \A i \in DOMAIN notify_tasks[c] :
                           notify_tasks[c][i].event # e)

\* agent.py:238-246: one task per matched event.
transcript_notify_events(text) ==
  events_in_order(_extract_trigger_events(Chars[text]), 1)

\* Variant: the call is dispatched on any match.
dispatches_call_on_any_match(matched) == matched # {}

\* agent.py:200  `if "shots_fired" in matched_events`
dispatches_call(matched) == "shots_fired" \in matched

\* Variant: the call is dispatched only after a published notify.
call_tasks_after_notify_if_published(text, outcome) ==
  IF outcome = "published" THEN << new_call(text) >> ELSE <<>>

\* agent.py:206-216: once the awaited notify returns, the handler creates the
\* outbound-call task; an exception out of the await would end the handler.
call_tasks_after_notify(text, outcome) ==
  IF outcome = "raised" THEN <<>> ELSE << new_call(text) >>

\* Variant: the finality flag is not looked at.
transcript_accepted_any_revision(text, is_final) == text # ""

\* agent.py:230-236: text is stripped; empty and non-final revisions return.
transcript_accepted(text, is_final) == text # "" /\ is_final

notifies_of(evs, text) ==
  [ i \in 1..Len(evs) |-> new_notify(evs[i], text, FALSE) ]

\* ------------------------------------------------------------------- Init
InitSession ==
  /\ pc = "start"
  /\ disconnected = FALSE
  /\ cycles = <<>>
  /\ notify_tasks = <<>>
  /\ call_tasks = <<>>
  /\ active_text_tasks = {}
  /\ clock = 0

Init ==
  /\ InitSession
  /\ events_api_base_url \in { "", "https://clearance-phi.vercel.app" }
  /\ trunk_id \in { "", "ST_trunk" }
  /\ cl_text = <<>>
  /\ cl_events = {}
  /\ cl_done = FALSE

\* The room delivers inputs only between ctx.connect() and the disconnect.
Delivering == pc = "waiting" /\ ~disconnected

\* A handler task has finished and its done callback has not run yet. The
\* loop runs the callback in its next iteration; it touches only
\* active_text_tasks, so it is taken before any other step.
CallbackPending ==
  \E c \in active_text_tasks : cycles[c].st \in HandlerFinal

\* disconnected.set() has woken entrypoint's wait and entrypoint has not
\* resumed yet. It resumes in the loop's next iteration and touches only
\* its own position, so that step too is taken before any other.
ReturnPending == pc = "waiting" /\ disconnected

LoopIdle == ~CallbackPending /\ ~ReturnPending

\* ------------------------------------------------------------- entrypoint
\* agent.py:254-264  await session.start(...)
session_start ==
  /\ LoopIdle
  /\ pc = "start"
  /\ pc' = "connecting"
  /\ UNCHANGED << disconnected, events_api_base_url, trunk_id, cycles,
                  notify_tasks, call_tasks, active_text_tasks, clock,
                  classifyVars >>

\* agent.py:265  await ctx.connect()
ctx_connect ==
  /\ LoopIdle
  /\ pc = "connecting"
  /\ pc' = "waiting"
  /\ UNCHANGED << disconnected, events_api_base_url, trunk_id, cycles,
                  notify_tasks, call_tasks, active_text_tasks, clock,
                  classifyVars >>

\* agent.py:250-252
_on_disconnected ==
  /\ LoopIdle
  /\ pc = "waiting"
  /\ ~disconnected
  /\ disconnected' = TRUE
  /\ UNCHANGED << pc, events_api_base_url, trunk_id, cycles, notify_tasks,
                  call_tasks, active_text_tasks, clock, classifyVars >>

\* Some read, notify or outbound call of the session has failed.
SomeFailure ==
  \/ \E c \in DOMAIN cycles : cycles[c].st \in { "read_failed", "raised" }
  \/ \E c \in DOMAIN notify_tasks : \E i \in DOMAIN notify_tasks[c] :
       notify_tasks[c][i].st \in { "failed_status", "failed_error", "raised" }
  \/ \E c \in DOMAIN call_tasks : \E j \in DOMAIN call_tasks[c] :
       call_tasks[c][j].st \in { "config_error", "sip_error" }

\* Variant: a failure of a task also ends entrypoint.
entrypoint_return_on_failure ==
  /\ ~CallbackPending
  /\ pc = "waiting"
  /\ disconnected \/ SomeFailure
  /\ pc' = "returned"
  /\ UNCHANGED << disconnected, events_api_base_url, trunk_id, cycles,
                  notify_tasks, call_tasks, active_text_tasks, clock,
                  classifyVars >>

\* agent.py:266  await disconnected.wait() returns and entrypoint ends.
entrypoint_return ==
  /\ ~CallbackPending
  /\ pc = "waiting"
  /\ disconnected
  /\ pc' = "returned"
  /\ UNCHANGED << disconnected, events_api_base_url, trunk_id, cycles,
                  notify_tasks, call_tasks, active_text_tasks, clock,
                  classifyVars >>

\* Variant: the handler task is created and not added to the set.
_register_text_stream_untracked ==
  /\ LoopIdle
  /\ Delivering
  /\ Len(cycles) < MaxCycles
  /\ cycles' = Append(cycles, [ channel    |-> "text_stream",
                                text       |-> "",
                                is_final   |-> TRUE,
                                st         |-> "reading",
                                classified |-> FALSE ])
  /\ notify_tasks' = Append(notify_tasks, <<>>)
  /\ call_tasks' = Append(call_tasks, <<>>)
  /\ UNCHANGED << pc, disconnected, events_api_base_url, trunk_id,
                  active_text_tasks, clock, classifyVars >>

\* ------------------------------------------------------ text-stream channel
\* agent.py:218-221: the handler task is created and tracked. The payload's
\* content is known only once reader.read_all() returns.
_register_text_stream ==
  /\ LoopIdle
  /\ Delivering
  /\ Len(cycles) < MaxCycles
  /\ cycles' = Append(cycles, [ channel    |-> "text_stream",
                                text       |-> "",
                                is_final   |-> TRUE,
                                st         |-> "reading",
                                classified |-> FALSE ])
  /\ notify_tasks' = Append(notify_tasks, <<>>)
  /\ call_tasks' = Append(call_tasks, <<>>)
  /\ active_text_tasks' = active_text_tasks \cup { Len(cycles) + 1 }
  /\ UNCHANGED << pc, disconnected, events_api_base_url, trunk_id, clock,
                  classifyVars >>

\* Variant: the exception of reader.read_all() is not caught.
_handle_text_stream_read_raises(c) ==
  /\ LoopIdle
  /\ c \in DOMAIN cycles
  /\ cycles[c].channel = "text_stream"
  /\ cycles[c].st = "reading"
  /\ cycles' = [cycles EXCEPT ![c].st = "raised"]
  /\ UNCHANGED << pc, disconnected, events_api_base_url, trunk_id,
                  notify_tasks, call_tasks, active_text_tasks, clock,
                  classifyVars >>

\* agent.py:181-185: reader.read_all() raises; the handler logs and returns.
_handle_text_stream_read_fails(c) ==
  /\ LoopIdle
  /\ c \in DOMAIN cycles
  /\ cycles[c].channel = "text_stream"
  /\ cycles[c].st = "reading"
  /\ cycles' = [cycles EXCEPT ![c].st = "read_failed"]
  /\ UNCHANGED << pc, disconnected, events_api_base_url, trunk_id,
                  notify_tasks, call_tasks, active_text_tasks, clock,
                  classifyVars >>

\* agent.py:182, 186-216: reader.read_all() returns; the handler runs up to
\* its next suspension (the awaited shots_fired notify) or to its end.
_handle_text_stream_read_returns(c, text) ==
  /\ LoopIdle
  /\ c \in DOMAIN cycles
  /\ cycles[c].channel = "text_stream"
  /\ cycles[c].st = "reading"
  /\ LET matched == _extract_trigger_events(Chars[text])
         others  == notifies_of(text_stream_notify_events(text), text)
         inl     == new_notify("shots_fired", text, TRUE)
     IN  IF text = ""
         THEN /\ cycles' = [cycles EXCEPT ![c].st = "done",
                                          ![c].text = text]
              /\ UNCHANGED << notify_tasks, call_tasks >>
         ELSE IF dispatches_call(matched)
         THEN /\ notify_tasks' = [notify_tasks EXCEPT ![c] = others \o << inl >>]
              /\ IF inl.st = "posting"
                 THEN /\ cycles' = [cycles EXCEPT ![c].st = "notifying",
                                                  ![c].text = text,
                                                  ![c].classified = TRUE]
                      /\ UNCHANGED call_tasks
                 ELSE /\ cycles' = [cycles EXCEPT ![c].st = "done",
                                                  ![c].text = text,
                                                  ![c].classified = TRUE]
                      /\ call_tasks' =
                           [call_tasks EXCEPT ![c] =
                              call_tasks_after_notify(text, inl.st)]
         ELSE /\ notify_tasks' = [notify_tasks EXCEPT ![c] = others]
              /\ cycles' = [cycles EXCEPT ![c].st = "done",
                                          ![c].text = text,
                                          ![c].classified = TRUE]
              /\ UNCHANGED call_tasks
  /\ UNCHANGED << pc, disconnected, events_api_base_url, trunk_id,
                  active_text_tasks, clock, classifyVars >>

\* agent.py:221: the done callback of a finished handler task.
text_task_done_callback(c) ==
  /\ c \in active_text_tasks
  /\ cycles[c].st \in HandlerFinal
  /\ active_text_tasks' = active_text_tasks \ { c }
  /\ UNCHANGED << pc, disconnected, events_api_base_url, trunk_id, cycles,
                  notify_tasks, call_tasks, clock, classifyVars >>

\* ------------------------------------------------------- transcript channel
\* Variant: a transcript is taken up only once no text-stream handler is
\* suspended.
_on_transcript_after_handlers(raw, is_final) ==
  /\ LoopIdle
  /\ Delivering
  /\ Len(cycles) < MaxCycles
  /\ \A b \in DOMAIN cycles : cycles[b].st \notin { "reading", "notifying" }
  /\ LET text == Str(str_strip(Chars[raw]))
         ok   == transcript_accepted(text, is_final)
     IN  /\ cycles' = Append(cycles, [ channel    |-> "transcript",
                                       text       |-> text,
                                       is_final   |-> is_final,
                                       st         |-> "done",
                                       classified |-> ok ])
         /\ notify_tasks' =
              Append(notify_tasks,
                     IF ok
                     THEN notifies_of(transcript_notify_events(text), text)
                     ELSE <<>>)
  /\ call_tasks' = Append(call_tasks, <<>>)
  /\ UNCHANGED << pc, disconnected, events_api_base_url, trunk_id,
                  active_text_tasks, clock, classifyVars >>

\* agent.py:228-246
_on_transcript(raw, is_final) ==
  /\ LoopIdle
  /\ Delivering
  /\ Len(cycles) < MaxCycles
  /\ LET text == Str(str_strip(Chars[raw]))
         c    == Len(cycles) + 1
         ok   == transcript_accepted(text, is_final)
     IN  /\ cycles' = Append(cycles, [ channel    |-> "transcript",
                                       text       |-> text,
                                       is_final   |-> is_final,
                                       st         |-> "done",
                                       classified |-> ok ])
         /\ notify_tasks' =
              Append(notify_tasks,
                     IF ok
                     THEN notifies_of(transcript_notify_events(text), text)
                     ELSE <<>>)
  /\ call_tasks' = Append(call_tasks, <<>>)
  /\ UNCHANGED << pc, disconnected, events_api_base_url, trunk_id,
                  active_text_tasks, clock, classifyVars >>

\* ------------------------------------------------------------ notify tasks
\* agent.py:287-293: the POST ends; when the notify was awaited by a
\* text-stream handler (agent.py:206), that handler resumes (agent.py:211).
_send_event_to_chain_returns(c, i, http) ==
  /\ LoopIdle
  /\ c \in DOMAIN notify_tasks
  /\ i \in DOMAIN notify_tasks[c]
  /\ notify_tasks[c][i].st = "posting"
  /\ LET outcome == send_event_outcome(http)
         t       == notify_tasks[c][i]
     IN  /\ notify_tasks' = [notify_tasks EXCEPT ![c][i].st = outcome]
         /\ IF t.inline
            THEN /\ cycles' = [cycles EXCEPT ![c].st =
                                 IF outcome = "raised" THEN "raised" ELSE "done"]
                 /\ call_tasks' =
                      [call_tasks EXCEPT ![c] =
                         call_tasks_after_notify(t.transcript, outcome)]
            ELSE UNCHANGED << cycles, call_tasks >>
  /\ UNCHANGED << pc, disconnected, events_api_base_url, trunk_id,
                  active_text_tasks, clock, classifyVars >>

\* ----------------------------------------------------- outbound-call tasks
\* agent.py:126-139: create_sip_participant returns or raises.
_dispatch_outbound_call_returns(c, j, ok) ==
  /\ LoopIdle
  /\ c \in DOMAIN call_tasks
  /\ j \in DOMAIN call_tasks[c]
  /\ call_tasks[c][j].st = "requesting"
  /\ call_tasks' = [call_tasks EXCEPT ![c][j].st =
                      IF ok THEN "dispatched" ELSE "sip_error"]
  /\ UNCHANGED << pc, disconnected, events_api_base_url, trunk_id, cycles,
                  notify_tasks, active_text_tasks, clock, classifyVars >>

\* time.time() advances by a second. The clock is read only when an
\* outbound call starts, so it is advanced only while a handler that can
\* still start one is running.
tick ==
  /\ LoopIdle
  /\ clock < MaxClock
  /\ \E c \in DOMAIN cycles : cycles[c].st \in { "reading", "notifying" }
  /\ clock' = clock + 1
  /\ UNCHANGED << pc, disconnected, events_api_base_url, trunk_id, cycles,
                  notify_tasks, call_tasks, active_text_tasks, classifyVars >>

Next ==
  \/ session_start
  \/ ctx_connect
  \/ _on_disconnected
  \/ entrypoint_return
  \/ _register_text_stream
  \/ \E c \in 1..MaxCycles : _handle_text_stream_read_fails(c)
  \/ \E c \in 1..MaxCycles, text \in Payloads :
       _handle_text_stream_read_returns(c, text)
  \/ \E c \in 1..MaxCycles : text_task_done_callback(c)
  \/ \E raw \in Transcripts, is_final \in BOOLEAN : _on_transcript(raw, is_final)
  \/ \E c \in DOMAIN notify_tasks : \E i \in DOMAIN notify_tasks[c] :
       \E http \in HttpResults : _send_event_to_chain_returns(c, i, http)
  \/ \E c \in DOMAIN call_tasks : \E j \in DOMAIN call_tasks[c] :
       \E ok \in BOOLEAN : _dispatch_outbound_call_returns(c, j, ok)

Spec == Init /\ [][Next]_vars

\* The same session with the clock running.
NextTimed == Next \/ tick

SpecTimed == Init /\ [][NextTimed]_vars

\* The session under the scheduling the code guarantees. The event loop runs
\* every callback it has scheduled (a handler's done callback, entrypoint's
\* resumption). A notify's POST ends: urlopen is given timeout=10, so a sink
\* that never answers becomes the "exception" outcome. Nothing of the kind is
\* stated for reader.read_all(), for create_sip_participant or for the
\* arrival of inputs and of the disconnect signal, which are awaited with no
\* time limit.
Fairness ==
  /\ WF_vars(entrypoint_return)
  /\ \A c \in 1..MaxCycles :
       /\ WF_vars(text_task_done_callback(c))
       /\ \A i \in 1..Len(TRIGGER_PHRASES) :
            WF_vars(\E http \in HttpResults :
                      _send_event_to_chain_returns(c, i, http))

SpecFair == Init /\ [][Next]_vars /\ Fairness

\* ------------------------------------------------- classify checked alone
RECURSIVE concat(_)
concat(frags) ==
  IF frags = <<>> THEN <<>> ELSE Head(frags) \o concat(Tail(frags))

ClassifyInputs ==
  { concat(fs) : fs \in UNION { [1..n -> Fragments] : n \in 0..MaxFrags } }

InitClassify ==
  /\ InitSession
  /\ events_api_base_url = ""
  /\ trunk_id = ""
  /\ cl_text \in ClassifyInputs
  /\ cl_events = {}
  /\ cl_done = FALSE

classify_call ==
  /\ ~cl_done
  /\ cl_events' = _extract_trigger_events(cl_text)
  /\ cl_done' = TRUE
  /\ UNCHANGED << cl_text, sessionVars >>

NextClassify == classify_call

SpecClassify == InitClassify /\ [][NextClassify]_vars

\* ============================================================== properties
\* The classification of each text of the session model.
Classification == [ s \in DOMAIN Chars |-> _extract_trigger_events(Chars[s]) ]

classify(text) == Classification[text]

notify_count(c, e) ==
  Cardinality({ i \in DOMAIN notify_tasks[c] : notify_tasks[c][i].event = e })

call_count(c) == Len(call_tasks[c])

\* A cycle whose text was handed to the classifier.
Classified(c) == cycles[c].classified

TextCycles == { c \in DOMAIN cycles : cycles[c].channel = "text_stream" }
SpeechCycles == { c \in DOMAIN cycles : cycles[c].channel = "transcript" }

\* C1 (as claimed): every finalized, non-empty transcript whose
\* classification contains shots_fired has exactly one shots_fired notify and
\* exactly one outbound-call dispatch attempt in its cycle.
C1_TranscriptShotsFiredNotifiesAndCalls ==
  \A c \in SpeechCycles :
    ( /\ cycles[c].is_final
      /\ cycles[c].text # ""
      /\ "shots_fired" \in classify(cycles[c].text) )
    => /\ notify_count(c, "shots_fired") = 1
       /\ call_count(c) = 1

\* C2: a text-stream payload that was read and whose classification contains
\* shots_fired has exactly one shots_fired notify; its handler is either
\* still awaiting that notify (no call yet) or has finished with exactly one
\* outbound-call dispatch, whatever the notify's outcome and whatever other
\* kinds the payload matched.
C2_TextStreamShotsFiredOnce ==
  \A c \in TextCycles :
    ( /\ cycles[c].st \notin { "reading", "read_failed" }
      /\ "shots_fired" \in classify(cycles[c].text) )
    => /\ notify_count(c, "shots_fired") = 1
       /\ cycles[c].st \in { "notifying", "done" }
       /\ cycles[c].st = "notifying" => call_count(c) = 0
       /\ cycles[c].st = "done" => call_count(c) = 1

C2_Witness ==
  \E c \in TextCycles :
    /\ cycles[c].text = TxShotsMan
    /\ cycles[c].st = "done"
    /\ notify_count(c, "man_down") = 1
    /\ \E i \in DOMAIN notify_tasks[c] :
         /\ notify_tasks[c][i].event = "shots_fired"
         /\ notify_tasks[c][i].st = "failed_status"
    /\ call_count(c) = 1

\* C3: in every classification cycle of either channel, each matched kind
\* other than shots_fired has exactly one notify, and a cycle whose matched
\* set lacks shots_fired has no outbound-call dispatch.
C3_OtherKindsNotifiedOnceNoCall ==
  \A c \in DOMAIN cycles :
    /\ Classified(c) =>
         \A k \in classify(cycles[c].text) \ { "shots_fired" } :
           notify_count(c, k) = 1
    /\ "shots_fired" \notin classify(cycles[c].text) => call_count(c) = 0

C3_Witness ==
  /\ \E c \in TextCycles :
       /\ cycles[c].text = TxCamera
       /\ Classified(c)
       /\ notify_count(c, "camera_blocked") = 1
       /\ call_count(c) = 0
  /\ \E c \in SpeechCycles :
       /\ cycles[c].text = TxCamera
       /\ Classified(c)
       /\ notify_count(c, "camera_blocked") = 1

\* C4: a transcript revision that is not final is never classified and has
\* no notify and no outbound-call dispatch, whatever its text.
C4_InterimNeverDispatched ==
  \A c \in SpeechCycles :
    ~cycles[c].is_final =>
      /\ ~Classified(c)
      /\ notify_tasks[c] = <<>>
      /\ call_tasks[c] = <<>>

C4_Witness ==
  \E c, d \in SpeechCycles :
    /\ c < d
    /\ cycles[c].text = TxDropShots /\ ~cycles[c].is_final
    /\ notify_tasks[c] = <<>>
    /\ cycles[d].text = TxDropShots /\ cycles[d].is_final
    /\ notify_count(d, "shots_fired") = 1

\* C5: every notify carries a kind of the classification of the transcript
\* it carries, every outbound call carries a transcript whose classification
\* contains shots_fired, and a cycle whose text matches no phrase (or was
\* never classified) has no notify and no call.
C5_NoDispatchWithoutMatch ==
  \A c \in DOMAIN cycles :
    /\ \A i \in DOMAIN notify_tasks[c] :
         notify_tasks[c][i].event \in classify(notify_tasks[c][i].transcript)
    /\ \A j \in DOMAIN call_tasks[c] :
         "shots_fired" \in classify(call_tasks[c][j].transcript)
    /\ (~Classified(c) \/ classify(cycles[c].text) = {}) =>
         /\ notify_tasks[c] = <<>>
         /\ call_tasks[c] = <<>>

C5_Witness ==
  /\ \E c \in TextCycles :
       /\ cycles[c].text = TxBlank
       /\ Classified(c)
       /\ notify_tasks[c] = <<>>
  /\ \E c \in TextCycles :
       /\ notify_tasks[c] # <<>>
       /\ call_tasks[c] # <<>>

\* Case-insensitive occurrence of a (lower-case) phrase in a text, position
\* by position.
SameLetter(a, b) ==
  \/ a = b
  \/ \E n \in DOMAIN UpperCase : a = UpperCase[n] /\ b = LowerCase[n]

OccursFolded(phrase, text) ==
  \E p \in 0..(Len(text) - Len(phrase)) :
    \A q \in 1..Len(phrase) : SameLetter(text[p + q], phrase[q])

EventKinds == { TRIGGER_PHRASES[i].event : i \in DOMAIN TRIGGER_PHRASES }

\* C6: classify returns exactly the kinds k such that some phrase mapped to k
\* occurs, letter case ignored, in the text.
C6_ClassifyExact ==
  cl_done =>
    cl_events =
      { k \in EventKinds :
          \E i \in DOMAIN TRIGGER_PHRASES :
            /\ TRIGGER_PHRASES[i].event = k
            /\ OccursFolded(TRIGGER_PHRASES[i].phrase, cl_text) }

C6_Witness ==
  /\ cl_done
  /\ cl_events = { "weapon_drawn", "shots_fired" }
  /\ \E i \in DOMAIN cl_text : \E n \in DOMAIN UpperCase : cl_text[i] = UpperCase[n]

\* C7 (as claimed): in a cycle containing shots_fired the outbound call is
\* started without waiting for the shots_fired notify to finish: whenever
\* the shots_fired notify of a text-stream cycle is still posting, the
\* cycle's outbound call has already been started.
C7_CallStartedWhileNotifyPending ==
  \A c \in TextCycles :
    ( \E i \in DOMAIN notify_tasks[c] :
        /\ notify_tasks[c][i].event = "shots_fired"
        /\ notify_tasks[c][i].st = "posting" )
    => call_count(c) = 1

\* C8: a notify that ends in an exception or in a status of 300 or more made
\* one POST, ends as a logged failure and raises nothing: no notify and no
\* handler ends by an exception, and the handler that awaited it has gone on
\* to start the cycle's outbound call.
C8_FailedNotifyContained ==
  \A c \in DOMAIN cycles :
    /\ cycles[c].st # "raised"
    /\ \A i \in DOMAIN notify_tasks[c] :
         LET t == notify_tasks[c][i]
         IN  /\ t.st # "raised"
             /\ t.st \in { "failed_status", "failed_error" } =>
                  /\ t.posts = 1
                  /\ t.inline => /\ cycles[c].st = "done"
                                 /\ call_count(c) = 1

C8_Witness ==
  \E c \in TextCycles :
    /\ \E i \in DOMAIN notify_tasks[c] :
         /\ notify_tasks[c][i].inline
         /\ notify_tasks[c][i].st = "failed_error"
    /\ call_count(c) = 1
    /\ call_tasks[c][1].st = "dispatched"

\* C9: with no trunk id configured, every outbound-call attempt ends in the
\* configuration error with no telephony request made; the error stays in
\* that task: its handler has finished normally, the notifies of its cycle
\* are posted or finished and none has raised, and the entrypoint is where
\* it would be without the error (waiting, or returned after a disconnect).
C9_MissingTrunkContained ==
  \A c \in DOMAIN cycles : \A j \in DOMAIN call_tasks[c] :
    LET t == call_tasks[c][j]
    IN  /\ (trunk_id = "") <=> (t.st = "config_error")
        /\ t.st = "config_error" =>
             /\ t.requests = 0
             /\ cycles[c].st = "done"
             /\ pc \in { "waiting", "returned" }
             /\ pc = "returned" => disconnected
             /\ \A i \in DOMAIN notify_tasks[c] :
                  notify_tasks[c][i].st \in
                    { "posting", "skipped", "published", "failed_status",
                      "failed_error" }

C9_Witness ==
  \E c, d \in DOMAIN cycles :
    /\ c < d
    /\ call_count(c) = 1
    /\ call_tasks[c][1].st = "config_error"
    /\ \E i \in DOMAIN notify_tasks[c] :
         /\ notify_tasks[c][i].event = "shots_fired"
         /\ notify_tasks[c][i].st = "published"
    /\ cycles[d].channel = "transcript"
    /\ Classified(d)
    /\ notify_tasks[d] # <<>>

\* Number of dispatch tasks created so far.
RECURSIVE total_len(_)
total_len(seqs) ==
  IF seqs = <<>> THEN 0 ELSE Len(Head(seqs)) + total_len(Tail(seqs))

dispatch_tasks_created == total_len(notify_tasks) + total_len(call_tasks)

\* C10 (as claimed): once the disconnect signal has been delivered, no step
\* creates a notify or outbound-call task.
C10_NoNewTaskAfterDisconnect ==
  [][disconnected => dispatch_tasks_created' = dispatch_tasks_created]_vars

\* A task that has been started and has not finished.
notify_in_flight(c, i) == notify_tasks[c][i].st = "posting"
call_in_flight(c, j) == call_tasks[c][j].st = "requesting"
handler_in_flight(c) ==
  cycles[c].channel = "text_stream" /\ cycles[c].st \notin HandlerFinal

\* C11 (as claimed): when entrypoint has returned, no notify, outbound-call
\* or text-stream handler task is still in flight.
C11_NoTaskInFlightAtReturn ==
  pc = "returned" =>
    \A c \in DOMAIN cycles :
      /\ ~handler_in_flight(c)
      /\ \A i \in DOMAIN notify_tasks[c] : ~notify_in_flight(c, i)
      /\ \A j \in DOMAIN call_tasks[c] : ~call_in_flight(c, j)

\* The kinds of the notifies of cycle c, and whether each kind has one.
notified_kinds(c) ==
  { notify_tasks[c][i].event : i \in DOMAIN notify_tasks[c] }

notified_as_classified(c) ==
  /\ notified_kinds(c) = classify(cycles[c].text)
  /\ Len(notify_tasks[c]) = Cardinality(classify(cycles[c].text))

\* C12: a payload whose read fails is never classified and has no notify
\* and no call; its handler ends by returning, not by an exception; and
\* every other cycle that was classified has the notifies of its own
\* classification, whether it came before or after the failed one.
C12_ReadFailureAbandoned ==
  \A c \in TextCycles :
    /\ cycles[c].st # "raised"
    /\ cycles[c].st = "read_failed" =>
         /\ ~Classified(c)
         /\ notify_tasks[c] = <<>>
         /\ call_tasks[c] = <<>>
         /\ \A d \in DOMAIN cycles \ { c } :
              Classified(d) => notified_as_classified(d)

C12_Witness ==
  \E b, c \in DOMAIN cycles :
    /\ b < c
    /\ c \in TextCycles
    /\ cycles[c].st = "read_failed"
    /\ c \notin active_text_tasks
    /\ Classified(b)
    /\ notify_tasks[b] # <<>>

\* C13: entrypoint has returned only if the disconnect signal was
\* delivered; failed reads, notifies and outbound calls leave it waiting.
C13_OnlyDisconnectEndsSession ==
  /\ pc \in { "start", "connecting", "waiting", "returned" }
  /\ pc = "returned" => disconnected
  /\ (SomeFailure /\ ~disconnected) => pc = "waiting"

C13_Witness ==
  /\ pc = "waiting"
  /\ ~disconnected
  /\ \E c \in TextCycles : cycles[c].st = "read_failed"
  /\ \E c \in DOMAIN cycles :
       /\ \E i \in DOMAIN notify_tasks[c] :
            notify_tasks[c][i].st = "failed_error"
       /\ \E j \in DOMAIN call_tasks[c] : call_tasks[c][j].st = "sip_error"

\* C14: with the notification base URL empty, every notify is skipped with
\* no POST and without an error, and a read payload whose classification
\* contains shots_fired still has its outbound call attempted.
C14_MissingBaseUrlSkipsNotify ==
  events_api_base_url = "" =>
    \A c \in DOMAIN cycles :
      /\ \A i \in DOMAIN notify_tasks[c] :
           /\ notify_tasks[c][i].st = "skipped"
           /\ notify_tasks[c][i].posts = 0
      /\ cycles[c].st # "raised"
      /\ ( /\ c \in TextCycles
           /\ Classified(c)
           /\ "shots_fired" \in classify(cycles[c].text) )
         => /\ call_count(c) = 1
            /\ call_tasks[c][1].st # "config_error" =>
                 call_tasks[c][1].requests = 1

C14_Witness ==
  /\ events_api_base_url = ""
  /\ \E c \in TextCycles :
       /\ cycles[c].text = TxShotsMan
       /\ Len(notify_tasks[c]) = 2
       /\ call_count(c) = 1
       /\ call_tasks[c][1].st = "dispatched"
  /\ \E c \in SpeechCycles :
       /\ notify_tasks[c] # <<>>

\* The room is connected and the bound on inputs leaves room for one more.
CanDeliver == Delivering /\ LoopIdle /\ Len(cycles) < MaxCycles

\* C15: whatever handlers are suspended and whatever dispatch tasks are
\* pending, the transcript callback and the registration of a new payload
\* can run at once; every final, non-empty transcript was classified and
\* given its notifies in the step it arrived in, and every registered
\* payload has its own handler.
C15_ChannelsIndependent ==
  /\ CanDeliver =>
       /\ ENABLED _on_transcript(TxDropShots, FALSE)
       /\ ENABLED _register_text_stream
  /\ \A d \in SpeechCycles :
       (cycles[d].is_final /\ cycles[d].text # "") =>
         /\ Classified(d)
         /\ notified_as_classified(d)
  /\ \A c \in TextCycles :
       c \in active_text_tasks \/ cycles[c].st \in HandlerFinal

C15_Witness ==
  \E c \in TextCycles : \E d \in SpeechCycles :
    /\ c < d
    /\ cycles[c].st = "notifying"
    /\ cycles[d].is_final
    /\ Classified(d)
    /\ \E i \in DOMAIN notify_tasks[d] : notify_in_flight(d, i)

\* Tasks identified by what they run: the handler of cycle c, the i-th
\* notify created in cycle c, the j-th outbound call created in cycle c.
\* The only task set the session keeps is active_text_tasks, and its members
\* are handler tasks.
TrackedTasks == { << "handler", c, 0 >> : c \in active_text_tasks }

\* A notify awaited inline runs inside its handler's task; every other notify
\* and every outbound call is a task of its own.
RunningNotifyTasks ==
  { t \in { << "notify", c, i >> :
              c \in DOMAIN cycles, i \in 1..Len(TRIGGER_PHRASES) } :
      /\ t[3] \in DOMAIN notify_tasks[t[2]]
      /\ ~notify_tasks[t[2]][t[3]].inline
      /\ notify_in_flight(t[2], t[3]) }

RunningCallTasks ==
  { t \in { << "call", c, j >> : c \in DOMAIN cycles, j \in { 1 } } :
      /\ t[3] \in DOMAIN call_tasks[t[2]]
      /\ call_in_flight(t[2], t[3]) }

RunningDispatchTasks == RunningNotifyTasks \cup RunningCallTasks

\* C16: every running notify task and every running outbound-call task is a
\* member of the tracked task set.
C16_DispatchTasksTracked == RunningDispatchTasks \subseteq TrackedTasks

\* The outbound-call attempts that have drawn a participant identity, each
\* named by the cycle and position it was created at.
CallAttempts ==
  { t \in { << c, j >> : c \in DOMAIN cycles, j \in { 1 } } :
      /\ t[2] \in DOMAIN call_tasks[t[1]]
      /\ call_tasks[t[1]][t[2]].identity # -1 }

identity_of(t) == call_tasks[t[1]][t[2]].identity

\* C17: any two outbound-call attempts have different participant
\* identities.
C17_IdentitiesDistinct ==
  \A t \in CallAttempts : \A u \in CallAttempts :
    t # u => identity_of(t) # identity_of(u)

notify_posting(c, i) ==
  /\ c \in DOMAIN notify_tasks
  /\ i \in DOMAIN notify_tasks[c]
  /\ notify_in_flight(c, i)

notify_finished(c, i) ==
  /\ c \in DOMAIN notify_tasks
  /\ i \in DOMAIN notify_tasks[c]
  /\ notify_tasks[c][i].st \in NotifyFinal

call_requesting(c, j) ==
  /\ c \in DOMAIN call_tasks
  /\ j \in DOMAIN call_tasks[c]
  /\ call_in_flight(c, j)

call_finished(c, j) ==
  /\ c \in DOMAIN call_tasks
  /\ j \in DOMAIN call_tasks[c]
  /\ call_tasks[c][j].st \in CallFinal

\* Every notify that is posting ends with an outcome.
C18_NotifyEventuallyFinishes ==
  \A c \in 1..MaxCycles : \A i \in 1..Len(TRIGGER_PHRASES) :
    notify_posting(c, i) ~> notify_finished(c, i)

\* Every outbound call that is requesting ends with an outcome.
C18_CallEventuallyFinishes ==
  \A c \in 1..MaxCycles : call_requesting(c, 1) ~> call_finished(c, 1)

\* C18: every notify task and every outbound-call task eventually finishes,
\* whether or not its sink answers.
C18_DispatchEventuallyFinishes ==
  C18_NotifyEventuallyFinishes /\ C18_CallEventuallyFinishes

\* The classified inputs whose classification contains shots_fired.
ShotsFiredDetections ==
  { c \in DOMAIN cycles : Classified(c) /\ "shots_fired" \in classify(cycles[c].text) }

RECURSIVE shots_fired_notifies(_)
shots_fired_notifies(n) ==
  IF n = 0 THEN 0
  ELSE notify_count(n, "shots_fired") + shots_fired_notifies(n - 1)

\* C19: over the whole session there are as many shots_fired notifies as
\* classified inputs containing shots_fired, one in the cycle of each,
\* whichever channel each came from and whatever was detected before it.
C19_NoCrossChannelDedup ==
  /\ shots_fired_notifies(Len(cycles)) = Cardinality(ShotsFiredDetections)
  /\ \A c \in ShotsFiredDetections : notify_count(c, "shots_fired") = 1

C19_Witness ==
  \E c \in TextCycles : \E d \in SpeechCycles :
    /\ { c, d } \subseteq ShotsFiredDetections
    /\ notify_count(c, "shots_fired") = 1
    /\ notify_count(d, "shots_fired") = 1
    /\ shots_fired_notifies(Len(cycles)) = 2

UnfinishedHandlers == { c \in TextCycles : cycles[c].st \notin HandlerFinal }
FinishedHandlers == { c \in TextCycles : cycles[c].st \in HandlerFinal }

====
